---- MODULE Spec2Model ----
(***************************************************************************)
(* Event dispatch of the ARI client library (pulsar314/ari-py).            *)
(*                                                                         *)
(* Two clients share one design: ari.Client keeps persistent callbacks,    *)
(* tornado_ari.Client keeps single-resolution futures.  A behaviour of     *)
(* this module is the life of ONE client object in the hands of one        *)
(* calling program; the variable `env` says which class the program        *)
(* constructed, what it does with the client and what the server sends.    *)
(*                                                                         *)
(* Coroutines run on one IOLoop thread: a coroutine runs without           *)
(* interruption from one `yield` to the next.  `active` names the stream   *)
(* whose __run coroutine is between two yields; while it is set, nothing   *)
(* else runs except the code that coroutine calls.                         *)
(***************************************************************************)
EXTENDS Integers, Sequences, FiniteSets, TLC

\* ---------------------------------------------------------------- bounds
MaxStreams == 2      \* run() calls (one websocket each)
MaxClosures == 2     \* extract_objects closures created by on_object_event
MaxFutures == 3      \* futures created by tornado_ari on_event

Streams == 1..MaxStreams
NoStream == CHOOSE n \in 0..MaxStreams : n \notin Streams

\* ------------------------------------------------------------ data model
EventTypes == {"ChannelCreated", "BridgeMerged", "Custom"}
ModelIds == {"Channel", "Bridge"}
Fields == {"channel", "bridge", "bridge_from"}

\* self.event_models: the 'models' of the events api declaration.  Each
\* model is its 'properties': field name -> declared type.
event_models ==
  [t \in {"ChannelCreated", "BridgeMerged"} |->
     IF t = "ChannelCreated"
     THEN [f \in {"channel"} |-> "Channel"]
     ELSE [f \in {"bridge", "bridge_from"} |-> "Bridge"]]

\* self.event_models.get(event_type): None is the empty function
NoModel == [f \in {} |-> ""]
event_models_get(t) == IF t \in DOMAIN event_models THEN event_models[t] ELSE NoModel

\* JSON values of an object-valued field: absent, an object without the
\* identity field, or an object {"id": "101"} / {"id": "102"}
JsonVals == {"absent", "noid", "101", "102"}

\* Texts a websocket can deliver (ws.read_message()).  kind "null" is None.
Null == [kind |-> "null", type |-> "absent", channel |-> "absent",
         bridge |-> "absent", bridge_from |-> "absent"]
Text(k, t, c, b, bf) ==
  [kind |-> k, type |-> t, channel |-> c, bridge |-> b, bridge_from |-> bf]
MalformedTexts ==
  { Text("garbage", "absent", "absent", "absent", "absent"),   \* 'not json'
    Text("array",   "absent", "absent", "absent", "absent"),   \* '[1]'
    Text("object",  "absent", "101",    "absent", "absent") }  \* no "type"
UnhashableTypeText ==                                           \* {"type": []}
    Text("object", "unhashable", "absent", "absent", "absent")
ValidTexts ==
  { Text("object", "ChannelCreated", "101",    "absent", "absent"),
    Text("object", "ChannelCreated", "absent", "absent", "absent"),
    Text("object", "ChannelCreated", "noid",   "absent", "absent"),
    Text("object", "BridgeMerged",   "absent", "101",    "102"),
    Text("object", "Custom",         "absent", "absent", "absent") }
Texts == MalformedTexts \cup {UnhashableTypeText} \cup ValidTexts

\* json.loads(msg_str): raises ValueError on text that is not JSON,
\* otherwise the decoded value ("list" or "dict")
json_loads(msg_str) ==
  CASE msg_str.kind = "garbage" -> [ok |-> FALSE, isdict |-> FALSE, val |-> msg_str]
    [] msg_str.kind = "array"   -> [ok |-> TRUE,  isdict |-> FALSE, val |-> msg_str]
    [] OTHER                    -> [ok |-> TRUE,  isdict |-> TRUE,  val |-> msg_str]

\* (variant: the test for the "type" key is missing)
InvalidEvent_no_type_test(parsed) ==
  \/ ~parsed.ok
  \/ ~parsed.isdict

\* the guard of __run: not isinstance(msg_json, dict) or 'type' not in msg_json
InvalidEvent(parsed) ==
  \/ ~parsed.ok
  \/ ~parsed.isdict
  \/ parsed.val.type = "absent"

\* ------------------------------------------------- python list primitives
RECURSIVE IndexOf(_, _, _)
IndexOf(lst, x, i) ==
  IF i > Len(lst) THEN 0 ELSE IF lst[i] = x THEN i ELSE IndexOf(lst, x, i + 1)

Contains(lst, x) == IndexOf(lst, x, 1) # 0

\* list.remove(x): removes the first element equal to x
ListRemove(lst, x) ==
  LET k == IndexOf(lst, x, 1)
  IN IF k = 0 THEN lst
     ELSE SubSeq(lst, 1, k - 1) \o SubSeq(lst, k + 1, Len(lst))

\* ------------------------------------------ ari.Client: listener registry
Callbacks == {"f", "g"}          \* callback functions of the env
Args == {0, 1}                   \* *args / **kwargs given at registration


\* a Python function object; two are == iff they are the same object.
\* n numbers the extract_objects closures (each on_object_event call
\* makes a new one); fields/model are what the closure captured.
CbDirect(name) == [kind |-> "direct", name |-> name, n |-> 0,
                   fields |-> {}, model |-> "none"]
CbExtract(n, name, fields, model) ==
  [kind |-> "extract", name |-> name, n |-> n, fields |-> fields, model |-> model]

\* callback_obj = (event_cb, args, kwargs)
CallbackObj(cb, a) == [cb |-> cb, args |-> a]

\* (variant: on_event appends without looking for the callback)
on_event_no_dedup(lst, i, event_cb) == lst

\* on_event: for cb in listeners: if event_cb == cb[0]: listeners.remove(cb)
\* i is the position the list iterator reads next.
RECURSIVE on_event_dedup(_, _, _)
on_event_dedup(lst, i, event_cb) ==
  IF i > Len(lst) THEN lst
  ELSE IF lst[i].cb = event_cb
       THEN on_event_dedup(ListRemove(lst, lst[i]), i + 1, event_cb)
       ELSE on_event_dedup(lst, i + 1, event_cb)

\* on_event(event_type, event_cb, *args, **kwargs) on the registry reg
ari_on_event(reg, event_type, event_cb, a) ==
  [reg EXCEPT ![event_type] =
     Append(on_event_dedup(@, 1, event_cb), CallbackObj(event_cb, a))]

\* EventUnsubscriber.close() of the handle (event_type, callback_obj)
Handle(t, cb, a) == [type |-> t, obj |-> CallbackObj(cb, a)]
\* (variant: close() removes nothing)
EventUnsubscriber_close_noop(reg, h) == reg

EventUnsubscriber_close(reg, h) ==
  IF Contains(reg[h.type], h.obj)
  THEN [reg EXCEPT ![h.type] = ListRemove(@, h.obj)]
  ELSE reg

\* on_object_event: obj_fields = [k for (k, v) in properties if v.type == model_id]
obj_fields(event_type, model_id) ==
  LET event_model == event_models_get(event_type)
  IN {k \in DOMAIN event_model : event_model[k] = model_id}

\* (variant: the test `if not obj_fields` is missing)
on_object_event_raises_no_field_test(event_type, model_id) ==
  event_models_get(event_type) = NoModel

\* on_object_event raises ValueError before it registers anything
on_object_event_raises(event_type, model_id) ==
  \/ event_models_get(event_type) = NoModel
  \/ obj_fields(event_type, model_id) = {}

\* factory_fn(self, event[obj_field]): the object constructor reads the
\* identity field of the JSON value and raises KeyError when it is missing
FactoryRaises(v) == v = "noid"

\* extract_objects: the fields it builds objects from
\*   {obj_field: ... for obj_field in obj_fields if event.get(obj_field)}
ExtractedFields(cb, event) == {k \in cb.fields : event[k] # "absent"}
extract_objects_raises(cb, event) ==
  \E k \in ExtractedFields(cb, event) : FactoryRaises(event[k])

\* what a listener returns to __run, given what the env's function
\* returned: a direct callback's value is passed on; extract_objects ends
\* with the bare call `event_cb(obj, event, *a, **kw)` and returns None
listener_return(cb, ret) == IF cb.kind = "extract" THEN "none" ELSE ret

\* (variant: the loop never yields the future)
waits_for_nothing(ret) == FALSE

\* __run: if is_future(future): yield future
waits_for(ret) == ret = "future"

\* __run: listeners = list(self.event_listeners.get(msg_json['type'], []))
\* The local variable is a copy (alias FALSE), not the registry's own list.
\* (variant: no list(...), the loop runs over the registry's list)
ari_listeners_alias(reg, t) == [alias |-> TRUE, lst |-> <<>>]

\* (variant: the loop runs over the listeners of every event type)
ari_listeners_every_type(reg, t) ==
  [alias |-> FALSE, lst |-> reg["ChannelCreated"] \o reg["BridgeMerged"] \o reg["Custom"]]

ari_listeners(reg, t) == [alias |-> FALSE, lst |-> reg[t]]

\* (variant: no try/except around the call)
listener_error_uncaught == TRUE

\* __run: except Exception as e: self.exception_handler(e) -- the loop goes on
listener_error_propagates == FALSE


\* ------------------------------------- tornado_ari.Client: futures registry
\* CLASS_MAP: the declared types that have a constructor
CLASS_MAP == {"Bridge", "Channel", "Endpoint", "Playback", "LiveRecording",
              "StoredRecording", "Mailbox", "DeviceState"}

\* a value of an event: a raw JSON value, or a domain object of class cls
\* whose id is v
Raw(v) == [cls |-> "raw", v |-> v]
Obj(cls, id) == [cls |-> cls, v |-> id]
NoEvent == [f \in {"type"} |-> Raw("none")]

\* msg_json.items(): the fields the message has
MsgFields(msg_json) ==
  {"type"} \cup {f \in Fields : msg_json[f] # "absent"}

\* the fields of msg_json that __run hands to a constructor:
\*   if field in properties: type_ = properties[field]['type']
\*   if type_ in CLASS_MAP: value = CLASS_MAP[type_](self, value)
Promoted(msg_json) ==
  LET properties == event_models_get(msg_json.type)
  IN {f \in MsgFields(msg_json) \cap DOMAIN properties : properties[f] \in CLASS_MAP}

\* BaseObject.__init__: self.id = self.id_generator.id_as_str(as_json),
\* obj_json['id'] raising KeyError when the field is missing
ConstructorRaises(v) == v = "noid"

\* __run, building the event handed to the listeners
event_raises(msg_json) ==
  \E f \in Promoted(msg_json) : ConstructorRaises(msg_json[f])
event_of(msg_json) ==
  LET properties == event_models_get(msg_json.type)
  IN [f \in MsgFields(msg_json) |->
        IF f \in Promoted(msg_json) THEN Obj(properties[f], msg_json[f])
        ELSE Raw(msg_json[f])]

\* event_filter of a listener: None, the closure BaseObject.on_event makes
\* for an object of class cls with id `id`, or a predicate of the caller
\* that rejects every event or raises
NoFilter == [kind |-> "none", cls |-> "none", id |-> "none"]
ObjectFilter(cls, id) == [kind |-> "object", cls |-> cls, id |-> id]
UserFilter(does) == [kind |-> does, cls |-> "none", id |-> "none"]

\* (variant: the isinstance test is missing)
event_filter_id_only(flt, event) ==
  \E f \in DOMAIN event : event[f].v = flt.id

\* BaseObject.on_event.event_filter(event)
event_filter(flt, event) ==
  \E f \in DOMAIN event : event[f].cls = flt.cls /\ event[f].v = flt.id

filter_raises(flt, event) == flt.kind = "raise"
\* __run: event_filter is None or event_filter(event)
filter_accepts(flt, event) ==
  \/ flt.kind = "none"
  \/ flt.kind = "object" /\ event_filter(flt, event)

\* (variant: the test of future.done() is missing)
future_done_untested(state) == FALSE

\* __run: if future.done()
future_done(state) == state = "done"

\* (variant: a future that is resolved stays in the list)
RECURSIVE tornado_deliver_keeps_resolved(_, _, _, _, _, _)
tornado_deliver_keeps_resolved(lst, i, fs, fr, twice, event) ==
  IF i > Len(lst)
  THEN [lst |-> lst, fs |-> fs, fr |-> fr, twice |-> twice, err |-> "none"]
  ELSE LET l == lst[i]
       IN IF future_done(fs[l.fut])
          THEN tornado_deliver_keeps_resolved(ListRemove(lst, l), i + 1, fs, fr,
                                              twice, event)
          ELSE IF filter_raises(l.filter, event)
          THEN [lst |-> lst, fs |-> fs, fr |-> fr, twice |-> twice, err |-> "filter"]
          ELSE IF filter_accepts(l.filter, event)
          THEN tornado_deliver_keeps_resolved(lst, i + 1,
                               [fs EXCEPT ![l.fut] = "done"],
                               [fr EXCEPT ![l.fut] = event],
                               twice \/ fs[l.fut] = "done", event)
          ELSE tornado_deliver_keeps_resolved(lst, i + 1, fs, fr, twice, event)

\* __run: for listener in listeners: ... over the registry's own list.
\* i is the position the list iterator reads next; fs, fr are the states
\* and results of the futures; twice tells that set_result was called on a
\* future that was done.
RECURSIVE tornado_deliver(_, _, _, _, _, _)
tornado_deliver(lst, i, fs, fr, twice, event) ==
  IF i > Len(lst)
  THEN [lst |-> lst, fs |-> fs, fr |-> fr, twice |-> twice, err |-> "none"]
  ELSE LET l == lst[i]
       IN IF future_done(fs[l.fut])
          THEN tornado_deliver(ListRemove(lst, l), i + 1, fs, fr, twice, event)
          ELSE IF filter_raises(l.filter, event)
          THEN [lst |-> lst, fs |-> fs, fr |-> fr, twice |-> twice, err |-> "filter"]
          ELSE IF filter_accepts(l.filter, event)
          THEN tornado_deliver(ListRemove(lst, l), i + 1,
                               [fs EXCEPT ![l.fut] = "done"],
                               [fr EXCEPT ![l.fut] = event],
                               twice \/ fs[l.fut] = "done", event)
          ELSE tornado_deliver(lst, i + 1, fs, fr, twice, event)

\* -------------------------------------------------------- environments
\* The environment of the client: the calling program and the server.  It
\* fixes the class the program constructs, the number of run() calls it
\* makes, the on_event calls (event_type, event_cb, args) and
\* on_object_event calls (event_type, event_cb, model_id, args) it makes,
\* whether its callbacks use the client while they run, which kinds of
\* listener have a function that may return a pending future, whether the
\* holder of a future resolves it himself, and the texts the server sends.
ChannelCreated101 == Text("object", "ChannelCreated", "101", "absent", "absent")
CustomText == Text("object", "Custom", "absent", "absent", "absent")
FewTexts == {ChannelCreated101, CustomText}
PlainTexts == MalformedTexts \cup {UnhashableTypeText} \cup FewTexts

Reentrant ==
  [client |-> "ari", runs |-> 1, reenter |-> TRUE, external |-> FALSE,
   calls |-> { <<"ChannelCreated", "f", 0>>, <<"ChannelCreated", "f", 1>>,
               <<"ChannelCreated", "g", 0>> },
   objcalls |-> {}, futures |-> {"direct"}, texts |-> PlainTexts]
Objects ==
  [client |-> "ari", runs |-> 1, reenter |-> FALSE, external |-> FALSE,
   calls |-> { <<"ChannelCreated", "g", 0>>, <<"Custom", "g", 0>> },
   objcalls |-> { <<t, "g", m, 0>> : t \in EventTypes, m \in ModelIds },
   futures |-> {"extract"}, texts |-> Texts]
Concurrent ==
  [client |-> "ari", runs |-> MaxStreams, reenter |-> FALSE, external |-> FALSE,
   calls |-> { <<"ChannelCreated", "f", 0>>, <<"ChannelCreated", "g", 0>> },
   objcalls |-> {}, futures |-> {"direct"}, texts |-> FewTexts]

\* tornado_ari: calls are the on_event calls (event_type, event_filter);
\* a call with an ObjectFilter is the on_event of a domain object
Filters ==
  [client |-> "tornado", runs |-> 1, reenter |-> FALSE, external |-> FALSE,
   calls |-> { <<"ChannelCreated", NoFilter>>,
               <<"ChannelCreated", ObjectFilter("Channel", "102")>>,
               <<"ChannelCreated", UserFilter("raise")>>,
               <<"Custom", NoFilter>> },
   objcalls |-> {}, futures |-> {}, texts |-> Texts]
Races ==
  [client |-> "tornado", runs |-> MaxStreams, reenter |-> FALSE, external |-> TRUE,
   calls |-> { <<"ChannelCreated", NoFilter>> },
   objcalls |-> {}, futures |-> {}, texts |-> FewTexts]

\* tornado_ari: a Channel and a Bridge, both with id 102, call their
\* on_event; the server reports channels and bridges 101 and 102
ChannelCreated102 == Text("object", "ChannelCreated", "102", "absent", "absent")
BridgeMerged101 == Text("object", "BridgeMerged", "absent", "101", "102")
Subscribers ==
  [client |-> "tornado", runs |-> 1, reenter |-> FALSE, external |-> FALSE,
   calls |-> { <<"ChannelCreated", ObjectFilter("Channel", "102")>>,
               <<"BridgeMerged", ObjectFilter("Channel", "102")>>,
               <<"BridgeMerged", ObjectFilter("Bridge", "102")>> },
   objcalls |-> {}, futures |-> {},
   texts |-> {ChannelCreated101, ChannelCreated102, BridgeMerged101}]
Envs == {Reentrant, Objects, Concurrent, Filters, Races, Subscribers}

\* ------------------------------------------------------------------ state
VARIABLES
  env,              \* the environment (env.client: the class constructed)
  event_listeners,  \* self.event_listeners: event type -> list of listeners
  websockets,       \* self.websockets
  ws_closed,        \* per websocket: close() has been called on it
  swagger_closed,   \* self.swagger.close() has been called
  pc,               \* per run() call: where its coroutine stands
  err,              \* per run() call: the exception that left __run, if any
  cur,              \* __run local msg_json of the message being dispatched
  listeners,        \* __run local `listeners`
  idx,              \* __run: number of items the for-loop iterator has read
  active,           \* stream whose coroutine is running between two yields
  nclos,            \* extract_objects closures created so far
  call_err,         \* exception raised by the latest registration call
  nfut,             \* futures created so far by tornado_ari on_event
  fut_state,        \* per future: "new" (not created), "pending", "done"
  fut_result,       \* per future: the event it was resolved with
  set_twice,        \* set_result has been called on a future that was done
  \* history of the dispatch of the current message, per stream
  at_start,         \* registry list of the message's type when dispatch began
  invoked,          \* listeners invoked so far, in order
  raises,           \* a listener invocation ended in an exception
  unhandled,        \* ... that was not handed to self.exception_handler
  unsub_now,        \* callbacks that closed their own handle in this dispatch
  unsub_prev,       \* ... in an earlier dispatch of this stream
  user_future,      \* the env's function invoked last by this loop returned
                    \* a pending future: the kind of listener, else "none"
  \* the latest call of a function of the library that is not a step of a
  \* dispatch loop (extract_objects, promote, enrich_operation, __run's
  \* enrichment of one field)
  fn,               \* the function called, "none" before any call
  arg,              \* its arguments
  res               \* what it returned or raised

vars == <<env, event_listeners, websockets, ws_closed, swagger_closed, pc, err, cur,
          listeners, idx, active, nclos, call_err, nfut, fut_state,
          fut_result, set_twice, at_start, invoked, raises,
          unhandled, unsub_now, unsub_prev, user_future, fn, arg, res>>

streamVars == <<pc, err, cur, listeners, idx, active>>
futVars == <<nfut, fut_state, fut_result, set_twice>>
callVars == <<fn, arg, res>>
histVars == <<at_start, invoked, raises, unhandled, unsub_now, unsub_prev, user_future>>

NoListeners == [alias |-> FALSE, lst |-> <<>>]

Init ==
  /\ env \in Envs
  /\ event_listeners = [t \in EventTypes |-> <<>>]
  /\ websockets = {}
  /\ ws_closed = [s \in Streams |-> FALSE]
  /\ swagger_closed = FALSE
  /\ pc = [s \in Streams |-> "idle"]
  /\ err = [s \in Streams |-> "none"]
  /\ cur = [s \in Streams |-> Null]
  /\ listeners = [s \in Streams |-> NoListeners]
  /\ idx = [s \in Streams |-> 0]
  /\ active = NoStream
  /\ nclos = 0
  /\ call_err = "none"
  /\ nfut = 0
  /\ fut_state = [k \in 1..MaxFutures |-> "new"]
  /\ fut_result = [k \in 1..MaxFutures |-> NoEvent]
  /\ set_twice = FALSE
  /\ at_start = [s \in Streams |-> <<>>]
  /\ invoked = [s \in Streams |-> <<>>]
  /\ raises = [s \in Streams |-> FALSE]
  /\ unhandled = [s \in Streams |-> FALSE]
  /\ unsub_now = [s \in Streams |-> {}]
  /\ unsub_prev = [s \in Streams |-> {}]
  /\ user_future = [s \in Streams |-> "none"]
  /\ fn = "none"
  /\ arg = <<>>
  /\ res = <<>>

\* the list the for-loop of stream s iterates over
IterList(s) ==
  IF listeners[s].alias THEN event_listeners[cur[s].type] ELSE listeners[s].lst

\* a callback registered again is no longer "unsubscribed"
Resubscribed(u, t, cb) == [s \in Streams |-> u[s] \ {<<t, cb>>}]

\* --------------------------------------------- ari.Client: registration
Idle == active = NoStream

\* handles a env may hold: those of direct registrations, and those of
\* the extract_objects registrations still listed
AriHandles ==
  {Handle(i[1], CbDirect(i[2]), i[3]) : i \in env.calls}
  \cup UNION {{Handle(t, event_listeners[t][i].cb, event_listeners[t][i].args) :
                  i \in 1..Len(event_listeners[t])} : t \in EventTypes}

\* Client.on_event(event_type, event_cb, *args)
AriOnEvent(t, c, a) ==
  /\ env.client = "ari" /\ Idle
  /\ event_listeners' = ari_on_event(event_listeners, t, CbDirect(c), a)
  /\ call_err' = "none"
  /\ unsub_now' = Resubscribed(unsub_now, t, CbDirect(c))
  /\ unsub_prev' = Resubscribed(unsub_prev, t, CbDirect(c))
  /\ UNCHANGED <<env, callVars, swagger_closed, futVars, websockets, ws_closed, streamVars, nclos,
                 at_start, invoked, raises, unhandled, user_future>>

\* EventUnsubscriber.close()
AriUnsubscribe(h) ==
  /\ env.client = "ari" /\ Idle
  /\ event_listeners' = EventUnsubscriber_close(event_listeners, h)
  /\ UNCHANGED <<env, callVars, swagger_closed, futVars, websockets, ws_closed, streamVars, nclos, call_err,
                 histVars>>

\* Client.on_object_event(event_type, event_cb, factory_fn, model_id, *args)
AriOnObjectEvent(t, c, m, a) ==
  /\ env.client = "ari" /\ Idle
  /\ IF on_object_event_raises(t, m)
     THEN /\ call_err' = "ValueError"
          /\ UNCHANGED <<event_listeners, nclos>>
     ELSE /\ nclos < MaxClosures
          /\ nclos' = nclos + 1
          /\ call_err' = "none"
          /\ event_listeners' =
               ari_on_event(event_listeners, t,
                            CbExtract(nclos + 1, c, obj_fields(t, m), m), a)
  /\ UNCHANGED <<env, callVars, swagger_closed, futVars, websockets, ws_closed, streamVars, histVars>>

\* ------------------------------------------------------ run() and close()
\* run(apps): ws = yield self.swagger.events.eventWebsocket(app=apps)
\* run() calls are numbered in the order they are made.
RunStart(s) ==
  /\ Idle
  /\ pc[s] = "idle"
  /\ s <= env.runs
  /\ \A r \in Streams : r < s => pc[r] # "idle"
  /\ pc' = [pc EXCEPT ![s] = "connecting"]
  /\ UNCHANGED <<env, callVars, swagger_closed, futVars, event_listeners, websockets, ws_closed, err, cur,
                 listeners, idx, active, nclos, call_err, histVars>>

\* (variant: run() does not add the websocket to self.websockets)
RunConnected_no_add(s) ==
  /\ Idle
  /\ pc[s] = "connecting"
  /\ pc' = [pc EXCEPT ![s] = "read"]
  /\ UNCHANGED <<env, callVars, swagger_closed, futVars, event_listeners, websockets, ws_closed, err,
                 cur, listeners, idx, active, nclos, call_err, histVars>>

\* run(apps): self.websockets.add(ws); yield self.__run(ws)
RunConnected(s) ==
  /\ Idle
  /\ pc[s] = "connecting"
  /\ websockets' = websockets \cup {s}
  /\ pc' = [pc EXCEPT ![s] = "read"]
  /\ UNCHANGED <<env, callVars, swagger_closed, futVars, event_listeners, ws_closed, err, cur,
                 listeners, idx, active, nclos, call_err, histVars>>

\* (variant: close() also completes the futures that are pending)
ClientClose_resolves_pending ==
  /\ Idle
  /\ swagger_closed' = TRUE
  /\ ws_closed' = [s \in Streams |-> ws_closed[s] \/ s \in websockets]
  /\ fut_state' = [k \in 1..MaxFutures |->
                     IF fut_state[k] = "pending" THEN "done" ELSE fut_state[k]]
  /\ UNCHANGED <<env, callVars, nfut, fut_result, set_twice, event_listeners,
                 websockets, streamVars, nclos, call_err, histVars>>

\* Client.close(): for ws in self.websockets: ws.close()
\*                 self.swagger.close()
ClientClose ==
  /\ Idle
  /\ swagger_closed' = TRUE
  /\ ws_closed' = [s \in Streams |-> ws_closed[s] \/ s \in websockets]
  /\ UNCHANGED <<env, callVars, futVars, event_listeners, websockets, streamVars, nclos,
                 call_err, histVars>>

\* ------------------------------------------------- ari.Client.__run(ws)
\* the loop leaves the dispatch of a message and reads again
BackToRead(s) ==
  /\ pc' = [pc EXCEPT ![s] = "read"]
  /\ cur' = [cur EXCEPT ![s] = Null]
  /\ listeners' = [listeners EXCEPT ![s] = NoListeners]
  /\ idx' = [idx EXCEPT ![s] = 0]
  /\ active' = NoStream
  /\ at_start' = [at_start EXCEPT ![s] = <<>>]
  /\ invoked' = [invoked EXCEPT ![s] = <<>>]
  /\ raises' = [raises EXCEPT ![s] = FALSE]
  /\ unhandled' = [unhandled EXCEPT ![s] = FALSE]
  /\ unsub_prev' = [unsub_prev EXCEPT ![s] = @ \cup unsub_now[s]]
  /\ unsub_now' = [unsub_now EXCEPT ![s] = {}]

\* an exception leaves __run: run() raises it
Leave(s, e) ==
  /\ pc' = [pc EXCEPT ![s] = "done"]
  /\ err' = [err EXCEPT ![s] = e]
  /\ active' = NoStream

\* msg_str = yield ws.read_message() ... up to the start of the for loop
AriRead(s, msg_str) ==
  /\ env.client = "ari" /\ Idle
  /\ pc[s] = "read"
  /\ IF msg_str = Null
     THEN \* if msg_str is None: break
          /\ Leave(s, "none")
          /\ UNCHANGED <<cur, listeners, idx, histVars>>
     ELSE IF InvalidEvent(json_loads(msg_str))
     THEN \* log.error('Invalid event'); continue
          /\ cur' = [cur EXCEPT ![s] = msg_str]
          /\ UNCHANGED <<pc, err, listeners, idx, active, histVars>>
     ELSE IF msg_str.type \notin EventTypes
     THEN \* msg_json['type'] raises KeyError when the key is missing;
          \* self.event_listeners.get(msg_json['type'], []) raises
          \* TypeError when the value is not hashable
          /\ Leave(s, IF msg_str.type = "absent" THEN "KeyError" ELSE "TypeError")
          /\ UNCHANGED <<cur, listeners, idx, histVars>>
     ELSE /\ cur' = [cur EXCEPT ![s] = msg_str]
          /\ listeners' = [listeners EXCEPT ![s] =
                             ari_listeners(event_listeners, msg_str.type)]
          /\ idx' = [idx EXCEPT ![s] = 0]
          /\ pc' = [pc EXCEPT ![s] = "deliver"]
          /\ active' = s
          /\ at_start' = [at_start EXCEPT ![s] = event_listeners[msg_str.type]]
          /\ UNCHANGED <<err, invoked, raises, unhandled, unsub_now, unsub_prev,
                         user_future>>
  /\ UNCHANGED <<env, callVars, swagger_closed, futVars, event_listeners, websockets, ws_closed, nclos, call_err>>

\* for listener in listeners: the iterator is exhausted
AriEndDispatch(s) ==
  /\ env.client = "ari"
  /\ pc[s] = "deliver" /\ active = s
  /\ idx[s] >= Len(IterList(s))
  /\ BackToRead(s)
  /\ user_future' = [user_future EXCEPT ![s] = "none"]
  /\ UNCHANGED <<env, callVars, swagger_closed, futVars, event_listeners, websockets, ws_closed, err, nclos,
                 call_err>>

\* What the env's function does when it is invoked is the env's
\* choice: it returns None, raises, or returns a pending future (ret), and
\* it may use the client while it runs (eff).
Rets == {"none", "raise", "future"}
Nop == [op |-> "nop", h |-> Handle("Custom", CbDirect("f"), 0)]
Effects ==
  {Nop}
  \cup {[op |-> "on_event", h |-> Handle(i[1], CbDirect(i[2]), i[3])] :
          i \in env.calls}
  \cup {[op |-> "close", h |-> h] : h \in AriHandles}

apply_effect(reg, eff) ==
  CASE eff.op = "on_event" -> ari_on_event(reg, eff.h.type, eff.h.obj.cb, eff.h.obj.args)
    [] eff.op = "close"    -> EventUnsubscriber_close(reg, eff.h)
    [] OTHER               -> reg

\* the callback cb, delivering type t, closes the handle of its own
\* registration (the one listed for it, if it is still listed)
SelfClose(t, cb, eff) ==
  /\ eff.op = "close"
  /\ eff.h.type = t
  /\ eff.h.obj.cb = cb
  /\ \A i \in 1..Len(event_listeners[t]) :
       event_listeners[t][i].cb = cb => event_listeners[t][i] = eff.h.obj

\* except Exception as e: self.exception_handler(e), then the next listener
Caught(s) ==
  IF listener_error_propagates
  THEN /\ Leave(s, "listener")
       /\ raises' = [raises EXCEPT ![s] = TRUE]
       /\ unhandled' = [unhandled EXCEPT ![s] = TRUE]
  ELSE /\ raises' = [raises EXCEPT ![s] = TRUE]
       /\ UNCHANGED unhandled
       /\ pc' = [pc EXCEPT ![s] = "deliver"]
       /\ active' = s
       /\ UNCHANGED err

\* one pass of the for loop body: callback(msg_json, *args, **kwargs)
AriInvoke(s, ret, eff) ==
  /\ env.client = "ari"
  /\ pc[s] = "deliver" /\ active = s
  /\ idx[s] < Len(IterList(s))
  /\ LET l == IterList(s)[idx[s] + 1]
         t == cur[s].type
         early == l.cb.kind = "extract" /\ extract_objects_raises(l.cb, cur[s])
         r == IF early \/ ret = "raise" THEN "raise" ELSE listener_return(l.cb, ret)
     IN /\ early => ret = "none" /\ eff = Nop
        /\ idx' = [idx EXCEPT ![s] = @ + 1]
        /\ invoked' = [invoked EXCEPT ![s] = Append(@, l)]
        /\ event_listeners' = IF early THEN event_listeners
                              ELSE apply_effect(event_listeners, eff)
        /\ ret = "future" => l.cb.kind \in env.futures
        /\ eff # Nop => env.reenter
        /\ user_future' = [user_future EXCEPT ![s] =
                             IF ~early /\ ret = "future" THEN l.cb.kind ELSE "none"]
        /\ LET now == IF ~early /\ SelfClose(t, l.cb, eff)
                      THEN [unsub_now EXCEPT ![s] = @ \cup {<<t, l.cb>>}]
                      ELSE unsub_now
           IN IF ~early /\ eff.op = "on_event"
              THEN /\ unsub_now' = Resubscribed(now, eff.h.type, eff.h.obj.cb)
                   /\ unsub_prev' = Resubscribed(unsub_prev, eff.h.type, eff.h.obj.cb)
              ELSE /\ unsub_now' = now
                   /\ UNCHANGED unsub_prev
        /\ IF r = "raise"
           THEN Caught(s)
           ELSE IF waits_for(r)
           THEN \* yield future
                /\ pc' = [pc EXCEPT ![s] = "await"]
                /\ active' = NoStream
                /\ UNCHANGED <<err, raises, unhandled>>
           ELSE UNCHANGED <<pc, err, active, raises, unhandled>>
  /\ UNCHANGED <<env, callVars, swagger_closed, futVars, websockets, ws_closed, cur, listeners, nclos,
                 call_err, at_start>>

\* the future the loop waits for completes, with a result (ok) or an exception
AriResume(s, ok) ==
  /\ env.client = "ari" /\ Idle
  /\ pc[s] = "await"
  /\ user_future' = [user_future EXCEPT ![s] = "none"]
  /\ IF ok
     THEN /\ pc' = [pc EXCEPT ![s] = "deliver"]
          /\ active' = s
          /\ UNCHANGED <<err, raises, unhandled>>
     ELSE Caught(s)
  /\ UNCHANGED <<env, callVars, swagger_closed, futVars, event_listeners, websockets, ws_closed, cur,
                 listeners, idx, nclos, call_err, at_start, invoked,
                 unsub_now, unsub_prev>>

\* ------------------------------------------------ tornado_ari.Client
TListener(k, flt) == [fut |-> k, filter |-> flt]

\* Client.on_event(event_type, event_filter=None)
TornadoOnEvent(t, flt) ==
  /\ env.client = "tornado" /\ Idle
  /\ IF t \notin DOMAIN event_models
     THEN \* raise ValueError('Cannot find event model')
          /\ call_err' = "ValueError"
          /\ UNCHANGED <<event_listeners, futVars>>
     ELSE /\ nfut < MaxFutures
          /\ nfut' = nfut + 1
          /\ fut_state' = [fut_state EXCEPT ![nfut + 1] = "pending"]
          /\ event_listeners' =
               [event_listeners EXCEPT ![t] = Append(@, TListener(nfut + 1, flt))]
          /\ call_err' = "none"
          /\ UNCHANGED <<fut_result, set_twice>>
  /\ UNCHANGED <<env, callVars, swagger_closed, websockets, ws_closed, streamVars, nclos, histVars>>

\* the holder of a future resolves or cancels it (not the dispatcher)
ExternalResolve(k) ==
  /\ env.client = "tornado" /\ Idle
  /\ env.external
  /\ fut_state[k] = "pending"
  /\ fut_state' = [fut_state EXCEPT ![k] = "done"]
  /\ UNCHANGED <<env, callVars, swagger_closed, event_listeners, websockets, ws_closed, streamVars,
                 nclos, call_err, nfut, fut_result, set_twice, histVars>>

\* __run: one pass of `while True`; nothing in it yields, so the whole
\* dispatch of a message is one step
TornadoRead(s, msg_str) ==
  /\ env.client = "tornado" /\ Idle
  /\ pc[s] = "read"
  /\ IF msg_str = Null
     THEN \* if msg_str is None: break
          /\ Leave(s, "none")
          /\ UNCHANGED <<cur, event_listeners, futVars>>
     ELSE IF InvalidEvent(json_loads(msg_str))
     THEN \* log.error('Invalid event'); continue
          /\ cur' = [cur EXCEPT ![s] = msg_str]
          /\ UNCHANGED <<pc, err, active, event_listeners, futVars>>
     ELSE IF msg_str.type \notin EventTypes
     THEN /\ Leave(s, IF msg_str.type = "absent" THEN "KeyError" ELSE "TypeError")
          /\ UNCHANGED <<cur, event_listeners, futVars>>
     ELSE IF event_listeners[msg_str.type] = <<>>
     THEN \* if listeners: (None or empty)
          /\ cur' = [cur EXCEPT ![s] = Null]
          /\ UNCHANGED <<pc, err, active, event_listeners, futVars>>
     ELSE IF event_raises(msg_str)
     THEN \* CLASS_MAP[type_](self, value) raises
          /\ Leave(s, "KeyError")
          /\ UNCHANGED <<cur, event_listeners, futVars>>
     ELSE LET r == tornado_deliver(event_listeners[msg_str.type], 1, fut_state,
                                   fut_result, set_twice, event_of(msg_str))
          IN /\ event_listeners' = [event_listeners EXCEPT ![msg_str.type] = r.lst]
             /\ fut_state' = r.fs
             /\ fut_result' = r.fr
             /\ set_twice' = r.twice
             /\ UNCHANGED nfut
             /\ IF r.err = "none"
                THEN /\ cur' = [cur EXCEPT ![s] = Null]
                     /\ UNCHANGED <<pc, err, active>>
                ELSE /\ Leave(s, r.err)
                     /\ UNCHANGED cur
  /\ UNCHANGED <<env, callVars, swagger_closed, websockets, ws_closed, listeners, idx, nclos, call_err,
                 histVars>>

TornadoNext ==
  \/ \E i \in env.calls : TornadoOnEvent(i[1], i[2])
  \/ \E k \in 1..MaxFutures : ExternalResolve(k)
  \/ \E s \in Streams, m \in env.texts \cup {Null} : TornadoRead(s, m)

AriNext ==
  \/ \E i \in env.calls : AriOnEvent(i[1], i[2], i[3])
  \/ \E h \in AriHandles : AriUnsubscribe(h)
  \/ \E i \in env.objcalls : AriOnObjectEvent(i[1], i[2], i[3], i[4])
  \/ \E s \in Streams, m \in env.texts \cup {Null} : AriRead(s, m)
  \/ \E s \in Streams, ret \in Rets, eff \in Effects : AriInvoke(s, ret, eff)
  \/ \E s \in Streams : AriEndDispatch(s)
  \/ \E s \in Streams, ok \in BOOLEAN : AriResume(s, ok)

Next ==
  \/ \E s \in Streams : RunStart(s)
  \/ \E s \in Streams : RunConnected(s)
  \/ ClientClose
  \/ env.client = "ari" /\ AriNext
  \/ env.client = "tornado" /\ TornadoNext

Spec == Init /\ [][Next]_vars

\* ---------------------------------------------------------- scheduling
\* A websocket on which close() has been called delivers None and nothing
\* else.  The IOLoop runs every coroutine that can go on: the read of a
\* closed websocket happens, and a dispatch that is not waiting for a
\* future of a callback goes on.  Nothing makes a future returned by a
\* callback complete.
ClosedYieldsNull ==
  \A s \in Streams, m \in env.texts :
    ws_closed[s] => ~(AriRead(s, m) \/ TornadoRead(s, m))
ReadNull(s) == ws_closed[s] /\ (AriRead(s, Null) \/ TornadoRead(s, Null))
LoopStep(s) ==
  /\ env.client = "ari"
  /\ \/ \E ret \in Rets, eff \in Effects : AriInvoke(s, ret, eff)
     \/ AriEndDispatch(s)
FairNext ==
  \/ \E s \in Streams : RunStart(s)
  \/ \E s \in Streams : RunConnected(s)
  \/ ClientClose
  \/ env.client = "ari" /\ AriNext /\ ClosedYieldsNull
  \/ env.client = "tornado" /\ TornadoNext /\ ClosedYieldsNull
FairSpec ==
  /\ Init /\ [][FairNext]_vars
  /\ \A s \in Streams : SF_vars(ReadNull(s)) /\ WF_vars(LoopStep(s))

\* ============================================== calls outside the loops
\* The functions below are called by a listener, by a calling program or
\* by __run for one field; a behaviour of CallSpec is one such call, with
\* arguments the caller is free to choose.
NotCalled == fn = "none"

\* what a call hands back: None, one domain object, a dict of them, a list,
\* a raw JSON value, or an exception
None == [kind |-> "none"]
Single(o) == [kind |-> "object", obj |-> o]
Mapping(d) == [kind |-> "mapping", map |-> d]
Raise(e) == [kind |-> "raise", exc |-> e]

\* ------------------------------------- ari.Client: extract_objects(event)
\* every message of type t a listener of t can be handed
EventsOf(t) == {Text("object", t, c, b, bf) : c \in JsonVals, b \in JsonVals, bf \in JsonVals}

\* factory_fn(self, event[obj_field]): the domain object of the model type
\* whose id is the id of the JSON value
factory_fn(model_id, v) == Obj(model_id, v)

\* (variant: the test `if len(obj_fields) == 1` is missing)
extract_objects_obj_mapping(cb, event) ==
  Mapping([k \in ExtractedFields(cb, event) |-> factory_fn(cb.model, event[k])])

\* extract_objects: the first argument it gives to event_cb
extract_objects_obj(cb, event) ==
  LET obj == [k \in ExtractedFields(cb, event) |-> factory_fn(cb.model, event[k])]
  IN IF Cardinality(cb.fields) = 1
     THEN IF DOMAIN obj # {}
          THEN Single(obj[CHOOSE k \in DOMAIN obj : TRUE])
          ELSE None
     ELSE Mapping(obj)

\* a listener made by on_object_event(t, g, factory_fn, m) is invoked with
\* a message of type t; res is what g receives as its first argument
ExtractObjects(t, m, event) ==
  /\ NotCalled
  /\ ~on_object_event_raises(t, m)
  /\ event.type = t
  /\ LET cb == CbExtract(1, "g", obj_fields(t, m), m)
     IN /\ fn' = "extract_objects"
        /\ arg' = [type |-> t, model |-> m, event |-> event]
        /\ res' = IF extract_objects_raises(cb, event)
                  THEN Raise("KeyError")
                  ELSE extract_objects_obj(cb, event)
  /\ UNCHANGED <<env, swagger_closed, event_listeners, websockets, ws_closed,
                 streamVars, nclos, call_err, futVars, histVars>>

\* ------------------------------------------- tornado_ari.model: identity
\* the classes of model.py (Sound is a class, but no key of CLASS_MAP)
Classes == CLASS_MAP \cup {"Sound"}

\* JSON representations of an object: each identity field is absent or
\* holds a string
Projections ==
  [id : {"absent", "101", "102"}, name : {"absent", "rec"},
   technology : {"absent", "PJSIP"}, resource : {"absent", "alice"}]

\* the id_generator of each class: DefaultObjectIdGenerator(param_name,
\* id_field='id'), or EndpointIdGenerator
param_name(cls) ==
  CASE cls = "Channel"         -> "channelId"
    [] cls = "Bridge"          -> "bridgeId"
    [] cls = "Playback"        -> "playbackId"
    [] cls = "LiveRecording"   -> "recordingName"
    [] cls = "StoredRecording" -> "recordingName"
    [] cls = "DeviceState"     -> "deviceName"
    [] cls = "Sound"           -> "soundId"
    [] cls = "Mailbox"         -> "mailboxName"
id_field(cls) ==
  IF cls \in {"LiveRecording", "StoredRecording", "DeviceState", "Mailbox"}
  THEN "name" ELSE "id"

\* get_params(obj_json) raises KeyError when a field it reads is missing
get_params_raises(cls, obj_json) ==
  IF cls = "Endpoint"
  THEN obj_json.technology = "absent" \/ obj_json.resource = "absent"
  ELSE obj_json[id_field(cls)] = "absent"

\* get_params(obj_json)
get_params(cls, obj_json) ==
  IF cls = "Endpoint"
  THEN [k \in {"tech", "resource"} |->
          IF k = "tech" THEN obj_json.technology ELSE obj_json.resource]
  ELSE [k \in {param_name(cls)} |-> obj_json[id_field(cls)]]

\* id_as_str(obj_json); for an Endpoint '{tech}/{resource}'.format(**params)
id_as_str(cls, obj_json) ==
  IF cls = "Endpoint"
  THEN get_params(cls, obj_json).tech \o "/" \o get_params(cls, obj_json).resource
  ELSE obj_json[id_field(cls)]

\* BaseObject.__init__(client, resource, as_json)
BaseObject(cls, as_json) == Obj(cls, id_as_str(cls, as_json))

\* --------------------------------------------- tornado_ari.model: promote
MaxList == 2         \* elements of a JSON list in a response or a field

\* elements of JSON lists: some with their identity fields, some without
ListElems ==
  {p \in Projections : p.name = "rec" /\ (p.technology = "absent") = (p.resource = "absent")
                       /\ (p.id = "absent" => p.technology = "absent")}
JsonLists == UNION {[1..n -> ListElems] : n \in 0..MaxList}

\* a parsed JSON value: an object or a list of objects; "empty" is the
\* body of a response without content, which json.loads does not parse
Empty == [kind |-> "empty"]
JsonObject(p) == [kind |-> "object", val |-> p]
JsonList(l) == [kind |-> "list", val |-> l]
JsonValues == {JsonObject(p) : p \in Projections} \cup {JsonList(l) : l \in JsonLists}

\* HTTP responses: 200 with a body, 204 without one, 404
Responses ==
  {[code |-> 200, body |-> b] : b \in JsonValues \cup {Empty}}
  \cup {[code |-> 204, body |-> Empty], [code |-> 404, body |-> Empty]}

\* declared types: 'X' or 'List[X]', X the name of a class or of a model
\* that has no class
TypeNames == Classes \cup {"Application"}
DeclaredTypes == [list : BOOLEAN, of : TypeNames]

\* CLASS_MAP.get(name) / name in CLASS_MAP, the name being what
\* re.match('List\[(.*)\]', ...) left of a response class
in_CLASS_MAP(name) == name \in CLASS_MAP

ListOf(l) == [kind |-> "list", items |-> l]
Json(v) == [kind |-> "json", val |-> v]

\* factory(client, obj) on a parsed value
factory_raises(cls, v) ==
  \/ v.kind # "object"                  \* a list or a key has no ['id']
  \/ get_params_raises(cls, v.val)

\* promote(client, resp, operation_json), response_class the declared type
promote(resp, response_class) ==
  IF resp.code \notin {200, 204}
  THEN Raise("HTTPError")                                   \* resp.rethrow()
  ELSE IF in_CLASS_MAP(response_class.of)
  THEN IF resp.body = Empty
       THEN Raise("ValueError")                   \* json.loads(resp.body)
       ELSE IF response_class.list
       THEN IF resp.body.kind # "list"
            THEN Raise("TypeError")         \* the keys of a dict are strings
            ELSE IF \E i \in DOMAIN resp.body.val :
                      factory_raises(response_class.of, JsonObject(resp.body.val[i]))
            THEN Raise("KeyError")
            ELSE ListOf([i \in DOMAIN resp.body.val |->
                           BaseObject(response_class.of, resp.body.val[i])])
       ELSE IF resp.body.kind # "object"
            THEN Raise("TypeError")
            ELSE IF factory_raises(response_class.of, resp.body)
            THEN Raise("KeyError")
            ELSE Single(BaseObject(response_class.of, resp.body.val))
  ELSE IF resp.code = 204
  THEN None
  ELSE IF resp.body = Empty
  THEN Raise("ValueError")
  ELSE Json(resp.body)

\* Repository._promote / enrich_operation: promote(self.client, resp, oper.json)
Promote(resp, response_class) ==
  /\ NotCalled
  /\ fn' = "promote"
  /\ arg' = [resp |-> resp, response_class |-> response_class]
  /\ res' = promote(resp, response_class)
  /\ UNCHANGED <<env, swagger_closed, event_listeners, websockets, ws_closed,
                 streamVars, nclos, call_err, futVars, histVars>>

\* ------------------------------- tornado_ari.model: enrich_operation
\* **kwargs of a call obj.operation(...): any of the object's identity
\* parameter names and one other name, each with a value of the caller
KwargNames(cls) ==
  (IF cls = "Endpoint" THEN {"tech", "resource"} ELSE {param_name(cls)}) \cup {"app"}
Kwargs(cls) == UNION {[d -> {"x"}] : d \in SUBSET KwargNames(cls)}

\* (variant: the caller's arguments are laid over the identity parameters)
enrich_operation_kwargs_caller_wins(cls, obj_json, kwargs) ==
  LET params == get_params(cls, obj_json)
  IN [k \in DOMAIN kwargs \cup DOMAIN params |->
        IF k \in DOMAIN kwargs THEN kwargs[k] ELSE params[k]]

\* kwargs.update(self.id_generator.get_params(self.json))
enrich_operation_kwargs(cls, obj_json, kwargs) ==
  LET params == get_params(cls, obj_json)
  IN [k \in DOMAIN kwargs \cup DOMAIN params |->
        IF k \in DOMAIN params THEN params[k] ELSE kwargs[k]]

Call(kwargs) == [kind |-> "call", kwargs |-> kwargs]

\* enrich_operation(**kwargs) of an object of class cls whose json is
\* obj_json, up to oper(**kwargs); res is the call it makes
EnrichOperation(cls, obj_json, kwargs) ==
  /\ NotCalled
  /\ fn' = "enrich_operation"
  /\ arg' = [cls |-> cls, json |-> obj_json, kwargs |-> kwargs]
  /\ res' = IF get_params_raises(cls, obj_json)
            THEN Raise("KeyError")
            ELSE Call(enrich_operation_kwargs(cls, obj_json, kwargs))
  /\ UNCHANGED <<env, swagger_closed, event_listeners, websockets, ws_closed,
                 streamVars, nclos, call_err, futVars, histVars>>

\* ------------------------------ tornado_ari.Client.__run: one field
\* type_ in CLASS_MAP, type_ being the declared type as it is written
type_in_CLASS_MAP(type_) == ~type_.list /\ in_CLASS_MAP(type_.of)

\* the value __run stores in event[field]; declared tells whether the
\* field is in the properties of the event's model
enrich_value(declared, type_, value) ==
  IF declared /\ type_in_CLASS_MAP(type_)
  THEN IF factory_raises(type_.of, value)
       THEN Raise("KeyError")
       ELSE Single(BaseObject(type_.of, value.val))
  ELSE Json(value)

\* for field, value in msg_json.items(): ... event[field] = value
EnrichField(declared, type_, value) ==
  /\ NotCalled
  /\ fn' = "enrich"
  /\ arg' = [declared |-> declared, type |-> type_, value |-> value]
  /\ res' = enrich_value(declared, type_, value)
  /\ UNCHANGED <<env, swagger_closed, event_listeners, websockets, ws_closed,
                 streamVars, nclos, call_err, futVars, histVars>>

\* ------------------------- ari.Client: the handle of a replaced registration
\* registries a program can have built with on_event before the calls below
ListenerLists ==
  {<<>>}
  \cup {<<CallbackObj(CbDirect(c), a)>> : c \in Callbacks, a \in Args}
  \cup {<<CallbackObj(CbDirect(p[1]), a), CallbackObj(CbDirect(p[2]), b)>> :
          p \in {q \in Callbacks \X Callbacks : q[1] # q[2]}, a \in Args, b \in Args}
Registries ==
  {[t \in EventTypes |-> IF t = "ChannelCreated" THEN lst ELSE <<>>] :
     lst \in ListenerLists}

\* h1 = client.on_event(t, c, a1); h2 = client.on_event(t, c, a2);
\* h1.close(); h1.close() -- res is the registry after the second
\* on_event, after the first close and after the second close
CloseEarlierHandle(reg, t, c, a1, a2) ==
  /\ NotCalled
  /\ LET first == ari_on_event(reg, t, CbDirect(c), a1)
         h1 == Handle(t, CbDirect(c), a1)
         second == ari_on_event(first, t, CbDirect(c), a2)
         closed == EventUnsubscriber_close(second, h1)
     IN /\ fn' = "close_earlier_handle"
        /\ arg' = [reg |-> reg, type |-> t, cb |-> c, args1 |-> a1, args2 |-> a2]
        /\ res' = [second |-> second, closed |-> closed,
                   closed_twice |-> EventUnsubscriber_close(closed, h1)]
  /\ UNCHANGED <<env, swagger_closed, event_listeners, websockets, ws_closed,
                 streamVars, nclos, call_err, futVars, histVars>>

CallNext ==
  \/ \E reg \in Registries, c \in Callbacks, a1 \in Args, a2 \in Args :
       CloseEarlierHandle(reg, "ChannelCreated", c, a1, a2)
  \/ \E declared \in BOOLEAN, type_ \in DeclaredTypes, value \in JsonValues :
       EnrichField(declared, type_, value)
  \/ \E cls \in Classes, obj_json \in Projections : \E kwargs \in Kwargs(cls) :
       EnrichOperation(cls, obj_json, kwargs)
  \/ \E t \in EventTypes, m \in ModelIds : \E event \in EventsOf(t) :
       ExtractObjects(t, m, event)
  \/ \E resp \in Responses, response_class \in DeclaredTypes :
       Promote(resp, response_class)

CallSpec == Init /\ [][CallNext]_vars

\* ================================================================ claims
\* the for loop of stream s has read its last listener
Finished(s) == pc[s] = "deliver" /\ idx[s] >= Len(IterList(s))
Dispatching(s) == pc[s] \in {"deliver", "await"}
IsPrefix(a, b) == Len(a) <= Len(b) /\ a = SubSeq(b, 1, Len(a))

\* C1: while ari.Client dispatches a message, the listeners invoked so far
\* are, in order, the first ones of the list that was registered for the
\* message's type when the dispatch began, and when the loop ends every
\* one of them has been invoked exactly once -- whatever the callbacks
\* registered or unsubscribed meanwhile.
C1_SnapshotDelivery ==
  \A s \in Streams :
    (env.client = "ari" /\ Dispatching(s)) =>
      /\ IsPrefix(invoked[s], at_start[s])
      /\ Finished(s) => invoked[s] = at_start[s]

\* a dispatch has ended, two listeners were invoked, and a callback changed
\* the registry of that type meanwhile
C1_Witness ==
  \E s \in Streams :
    /\ Finished(s)
    /\ Len(at_start[s]) >= 2
    /\ invoked[s] = at_start[s]
    /\ event_listeners[cur[s].type] # at_start[s]

\* C2: when tornado_ari.Client dispatches a message of type T and the
\* dispatch runs to its end, every future that was listed for T, was
\* pending and has no filter or a filter that accepts the event is
\* resolved with the event and is no longer listed.
C2_AllMatchingResolved ==
  [][\A s \in Streams, m \in ValidTexts :
       (TornadoRead(s, m) /\ pc'[s] = "read" /\ ~event_raises(m)) =>
         \A i \in 1..Len(event_listeners[m.type]) :
           LET l == event_listeners[m.type][i]
           IN (fut_state[l.fut] = "pending"
               /\ ~filter_raises(l.filter, event_of(m))
               /\ filter_accepts(l.filter, event_of(m))) =>
                /\ fut_state'[l.fut] = "done"
                /\ fut_result'[l.fut] = event_of(m)
                /\ ~Contains(event_listeners'[m.type], l)]_vars

\* C3: the dispatcher never calls set_result on a future that is done, and
\* a future that is done keeps its state and its result.
C3_ResolvedAtMostOnce ==
  /\ [](~set_twice)
  /\ [][\A k \in 1..MaxFutures :
          fut_state[k] = "done" =>
            fut_state'[k] = "done" /\ fut_result'[k] = fut_result[k]]_vars

Listed(k) ==
  \E t \in EventTypes : \E i \in 1..Len(event_listeners[t]) :
    event_listeners[t][i].fut = k

\* two streams share the registry; one future was resolved by its holder
\* and then pruned by a dispatch, another was resolved by a dispatch
C3_Witness ==
  /\ env.client = "tornado"
  /\ \E a, b \in Streams : a # b /\ pc[a] = "read" /\ pc[b] = "read"
  /\ \E k \in 1..MaxFutures :
       fut_state[k] = "done" /\ fut_result[k] = NoEvent /\ ~Listed(k)
  /\ \E k \in 1..MaxFutures : fut_state[k] = "done" /\ fut_result[k] # NoEvent

\* C4: a callback that, during an earlier dispatch of a stream, closed the
\* unsubscribe handle of the registration it was invoked through, and was
\* not registered again, is not invoked for the later messages of that
\* stream.
C4_SelfUnsubscribe ==
  \A s \in Streams :
    (env.client = "ari" /\ Dispatching(s)) =>
      \A i \in 1..Len(invoked[s]) :
        <<cur[s].type, invoked[s][i].cb>> \notin unsub_prev[s]

\* a later message of the type has been delivered to another callback
C4_Witness ==
  \E s \in Streams :
    /\ Finished(s)
    /\ invoked[s] # <<>>
    /\ \E p \in unsub_prev[s] : p[1] = cur[s].type

\* C5: an exception of a listener is handed to the exception handler and
\* does not leave the loop: the dispatch goes on with the next listeners of
\* the same message, and ends with all of them invoked.
C5_ListenerErrorContained ==
  \A s \in Streams :
    /\ ~unhandled[s]
    /\ err[s] # "listener"
    /\ raises[s] =>
         /\ Dispatching(s)
         /\ IsPrefix(invoked[s], at_start[s])
         /\ Finished(s) => invoked[s] = at_start[s]

C5_Witness ==
  \E s \in Streams :
    raises[s] /\ Finished(s) /\ Len(invoked[s]) >= 2

\* C6: a text that is not JSON, is not a JSON object or has no "type" is
\* dropped by both clients: the loop stays at its read, nothing is raised,
\* no listener is invoked or resolved and the registry is unchanged.
C6_MalformedDropped ==
  [][\A s \in Streams, m \in MalformedTexts :
       (AriRead(s, m) \/ TornadoRead(s, m)) =>
         /\ pc'[s] = "read" /\ err'[s] = "none" /\ active' = NoStream
         /\ event_listeners' = event_listeners
         /\ fut_state' = fut_state /\ fut_result' = fut_result
         /\ invoked' = invoked]_vars

\* a malformed text has just been dropped while listeners are registered
C6_Witness ==
  \E s \in Streams :
    /\ pc[s] = "read" /\ cur[s] \in MalformedTexts
    /\ \E t \in EventTypes : event_listeners[t] # <<>>

\* C7: a dispatch loop ends only on a null message: no exception leaves it.
C7_OnlyNullEndsLoop ==
  \A s \in Streams : pc[s] = "done" => err[s] = "none"

\* C8: when a callback registered with ari.Client.on_event returns a
\* pending future, the loop of that stream is suspended, and while it is
\* suspended it invokes no listener and reads no message.
C8_SequentialDelivery ==
  /\ [](\A s \in Streams :
          /\ user_future[s] = "direct" => pc[s] = "await"
          /\ pc[s] = "await" => active # s)
  /\ [][\A s \in Streams :
          pc[s] = "await" =>
            invoked'[s] = invoked[s] /\ idx'[s] = idx[s] /\ cur'[s] = cur[s]]_vars

\* the loop is suspended with a later listener of the same message to come
C8_Witness ==
  \E s \in Streams :
    pc[s] = "await" /\ user_future[s] = "direct" /\ idx[s] < Len(at_start[s])

\* C9: when the function registered through on_object_event returns a
\* pending future, the loop of that stream is suspended.
C9_ObjectEventSequential ==
  \A s \in Streams : user_future[s] = "extract" => pc[s] = "await"

\* C10: on_object_event raises when the event type has no schema or the
\* schema has no field of the model type, and then leaves the registry as
\* it was; so no extract_objects listener without a field is ever listed
\* or invoked.
NoSchema(t) == t \notin DOMAIN event_models
NoFieldOfType(t, m) ==
  t \in DOMAIN event_models /\ \A f \in DOMAIN event_models[t] : event_models[t][f] # m
HasField(t, l) ==
  l.cb.kind = "extract" =>
    /\ t \in DOMAIN event_models
    /\ \E f \in DOMAIN event_models[t] : event_models[t][f] = l.cb.model
C10_RegistrationFailsFast ==
  /\ [](\A t \in EventTypes :
          env.client = "ari" =>
          /\ \A i \in 1..Len(event_listeners[t]) : HasField(t, event_listeners[t][i])
          /\ \A s \in Streams :
               (Dispatching(s) /\ cur[s].type = t) =>
                 \A i \in 1..Len(invoked[s]) : HasField(t, invoked[s][i]))
  /\ [][\A i \in env.objcalls :
          (AriOnObjectEvent(i[1], i[2], i[3], i[4])
           /\ (NoSchema(i[1]) \/ NoFieldOfType(i[1], i[3]))) =>
            call_err' = "ValueError" /\ event_listeners' = event_listeners]_vars

\* a message is delivered after a registration has failed
C10_Witness ==
  /\ call_err = "ValueError"
  /\ \E s \in Streams : env.client = "ari" /\ Finished(s) /\ invoked[s] # <<>>

\* C11: the function registered through on_object_event(t, ., ., m)
\* receives, when the schema of t has exactly one field of type m, the
\* object built from that field of the message, or None when the message
\* has no such field, and never a dict; when the schema has several fields
\* of type m it receives a dict from the name of each such field the
\* message has to the object built from it.  (Messages whose field has no
\* id make the constructor raise and are not delivered to the function.)
SchemaFields(t, m) == {f \in DOMAIN event_models[t] : event_models[t][f] = m}
NoCallbackTwice(lst) ==
  \A i, j \in 1..Len(lst) : i < j => lst[i].cb # lst[j].cb
C12_OneRegistrationPerCallback ==
  /\ [](env.client = "ari" =>
          /\ \A t \in EventTypes : NoCallbackTwice(event_listeners[t])
          /\ \A s \in Streams : Dispatching(s) => NoCallbackTwice(invoked[s]))
  /\ [][\A i \in env.calls :
          (env.client = "ari" /\ AriOnEvent(i[1], i[2], i[3])) =>
            LET lst == event_listeners'[i[1]]
            IN lst[Len(lst)] = CallbackObj(CbDirect(i[2]), i[3])]_vars

\* f was listed with args 0 when a dispatch began and has been registered
\* again with args 1: the registry lists it once, with args 1
C12_Witness ==
  \E s \in Streams :
    /\ Finished(s)
    /\ Contains(at_start[s], CallbackObj(CbDirect("f"), 0))
    /\ Len(at_start[s]) = 2
    /\ Len(event_listeners[cur[s].type]) = 2
    /\ Contains(event_listeners[cur[s].type], CallbackObj(CbDirect("f"), 1))

\* C13: promote returns None for every response of status 204, whatever
\* the declared response type.
C13_NoContentIsNull ==
  (fn = "promote" /\ arg.resp.code = 204) => res = None

\* the closed set of domain object types, the field each takes its id
\* from, and the id of a projection that has the field(s)
DomainObjectTypes ==
  {"Channel", "Bridge", "Playback", "LiveRecording", "StoredRecording",
   "Endpoint", "DeviceState", "Sound", "Mailbox"}
HasIdentity(X, p) ==
  CASE X = "Endpoint" -> p.technology # "absent" /\ p.resource # "absent"
    [] X \in {"LiveRecording", "StoredRecording", "DeviceState", "Mailbox"} ->
         p.name # "absent"
    [] OTHER -> p.id # "absent"
IdFor(X, p) ==
  CASE X = "Endpoint" -> p.technology \o "/" \o p.resource
    [] X \in {"LiveRecording", "StoredRecording", "DeviceState", "Mailbox"} -> p.name
    [] OTHER -> p.id

\* C14: promote of a 200 response declared as X of the closed set yields
\* the domain object of type X of the response's object; declared as
\* List[X] it yields the list of the domain objects of the response's
\* elements, in their order; declared as a type outside the set it yields
\* the parsed JSON.
C14_PromoteByDeclaredType ==
  (fn = "promote" /\ arg.resp.code = 200 /\ arg.resp.body # Empty) =>
    LET X == arg.response_class.of
        body == arg.resp.body
    IN IF X \notin DomainObjectTypes
       THEN res = Json(body)
       ELSE IF arg.response_class.list
       THEN (body.kind = "list" /\ \A i \in DOMAIN body.val : HasIdentity(X, body.val[i])) =>
              /\ res.kind = "list"
              /\ Len(res.items) = Len(body.val)
              /\ \A i \in DOMAIN body.val : res.items[i] = Obj(X, IdFor(X, body.val[i]))
       ELSE (body.kind = "object" /\ HasIdentity(X, body.val)) =>
              res = Single(Obj(X, IdFor(X, body.val)))

\* the identity parameters of an object of type X with projection p
IdentityParams(X, p) ==
  IF X = "Endpoint"
  THEN [k \in {"tech", "resource"} |-> IF k = "tech" THEN p.technology ELSE p.resource]
  ELSE [k \in {param_name(X)} |-> IdFor(X, p)]

\* C15: the call an object makes for obj.operation(**kwargs) carries each
\* identity parameter with the value of the object's projection, whatever
\* the caller gave under that name, and every other argument of the caller
\* as given; merging the identity into the merged arguments again changes
\* nothing.
C15_IdentityWins ==
  (fn = "enrich_operation" /\ HasIdentity(arg.cls, arg.json)) =>
    LET ids == IdentityParams(arg.cls, arg.json)
    IN /\ res.kind = "call"
       /\ DOMAIN res.kwargs = DOMAIN arg.kwargs \cup DOMAIN ids
       /\ \A k \in DOMAIN ids : res.kwargs[k] = ids[k]
       /\ \A k \in DOMAIN arg.kwargs \ DOMAIN ids : res.kwargs[k] = arg.kwargs[k]
       /\ enrich_operation_kwargs(arg.cls, arg.json, res.kwargs) = res.kwargs

\* the caller gave channelId and app; the call carries the channel's id
C15_Witness ==
  /\ fn = "enrich_operation" /\ arg.cls = "Channel"
  /\ DOMAIN arg.kwargs = {"channelId", "app"}
  /\ res = Call([k \in {"channelId", "app"} |-> IF k = "app" THEN "x" ELSE "101"])

\* the enriched event of m holds the domain object of class cls and id `id`
References(m, cls, id) ==
  \E f \in DOMAIN event_of(m) : event_of(m)[f] = Obj(cls, id)

\* C16: a future made by the on_event of a domain object is resolved by a
\* dispatch only with an event that holds an object of the same class and
\* id; after an event that holds none it is pending and still listed; and
\* the first listener of a type is resolved by an event that holds one.
C16_ObjectPredicate ==
  [][\A s \in Streams, m \in ValidTexts \cup {ChannelCreated102} :
       (TornadoRead(s, m) /\ event_listeners[m.type] # <<>> /\ ~event_raises(m)) =>
         \A i \in 1..Len(event_listeners[m.type]) :
           LET l == event_listeners[m.type][i]
           IN (l.filter.kind = "object" /\ fut_state[l.fut] = "pending") =>
                IF References(m, l.filter.cls, l.filter.id)
                THEN i = 1 =>
                       fut_state'[l.fut] = "done" /\ fut_result'[l.fut] = event_of(m)
                ELSE /\ fut_state'[l.fut] = "pending"
                     /\ Contains(event_listeners'[m.type], l)]_vars

\* BridgeMerged with bridges 101 and 102 has been dispatched: it resolved
\* the future of Bridge 102 and left the future of Channel 102, listed
\* first, pending
C16_Witness ==
  /\ env.client = "tornado"
  /\ Len(event_listeners["BridgeMerged"]) = 1
  /\ event_listeners["BridgeMerged"][1].filter = ObjectFilter("Channel", "102")
  /\ fut_state[event_listeners["BridgeMerged"][1].fut] = "pending"
  /\ \E k \in 1..MaxFutures :
       fut_state[k] = "done" /\ fut_result[k] = event_of(BridgeMerged101)

\* C17: in the enriched event a field declared as a type T that has a
\* constructor holds the domain object of type T of the raw value, a field
\* declared as List[T] holds the list of the domain objects of the raw
\* elements, and every other field holds the raw value.
C17_EnrichedFields ==
  fn = "enrich" =>
    LET T == arg.type.of
        value == arg.value
    IN IF ~(arg.declared /\ T \in CLASS_MAP)
       THEN res = Json(value)
       ELSE IF arg.type.list
       THEN (value.kind = "list" /\ \A i \in DOMAIN value.val : HasIdentity(T, value.val[i])) =>
              res = ListOf([i \in DOMAIN value.val |-> Obj(T, IdFor(T, value.val[i]))])
       ELSE (value.kind = "object" /\ HasIdentity(T, value.val)) =>
              res = Single(Obj(T, IdFor(T, value.val)))

\* the websocket of run() call s has been opened
Opened(s) == pc[s] \in {"read", "deliver", "await", "done"}

\* C18: when close() returns, close() has been called on the websocket of
\* every run() call whose websocket has been opened, in either client.
C18_CloseClosesEveryStream ==
  [][ClientClose => \A s \in Streams : Opened(s) => ws_closed'[s]]_vars

\* every run() call of a client with several of them has a closed
\* websocket, one of them in the middle of a dispatch
C18_Witness ==
  /\ env.runs = MaxStreams
  /\ \A s \in Streams : Opened(s) /\ ws_closed[s]
  /\ \E s \in Streams : pc[s] = "await"

\* C20: close() leaves every pending future of tornado_ari.Client pending,
\* without a result, and listed.
C20_CloseLeavesPending ==
  [][ClientClose =>
       /\ event_listeners' = event_listeners
       /\ \A k \in 1..MaxFutures :
            fut_state[k] = "pending" =>
              fut_state'[k] = "pending" /\ fut_result'[k] = fut_result[k]]_vars

\* the websocket is closed and a future is still listed and pending
C20_Witness ==
  /\ env.client = "tornado"
  /\ \E s \in Streams : Opened(s) /\ ws_closed[s]
  /\ \E k \in 1..MaxFutures : fut_state[k] = "pending" /\ Listed(k)

\* C19: once close() has been called on the websocket of a dispatch loop,
\* the loop ends (run() returns or raises), whatever the callbacks do.
C19_LoopsEndAfterClose ==
  \A s \in Streams :
    (ws_closed[s] /\ pc[s] \in {"read", "deliver", "await"}) ~> (pc[s] = "done")

\* C21: a dispatch of a message of type T that runs to its end leaves no
\* future listed for T that was done when the dispatch began, whatever its
\* filter and whatever else is listed for T.
C21_DonePrunedOnFirstDispatch ==
  [][\A s \in Streams, m \in ValidTexts \cup {ChannelCreated102} :
       (TornadoRead(s, m) /\ pc'[s] = "read" /\ ~event_raises(m)) =>
         \A i \in 1..Len(event_listeners[m.type]) :
           LET l == event_listeners[m.type][i]
           IN fut_state[l.fut] = "done" =>
                ~Contains(event_listeners'[m.type], l)]_vars

\* two listeners are extract_objects closures of on_object_event calls with
\* the same callback function and the same model type
SameObjectCallback(a, b) ==
  /\ a.cb.kind = "extract" /\ b.cb.kind = "extract"
  /\ a.cb.name = b.cb.name /\ a.cb.model = b.cb.model

\* C22: the registry of ari.Client never lists, for one event type, two
\* on_object_event registrations of the same callback function and model
\* type, and no dispatch invokes that function through two of them.
C22_ObjectEventDedup ==
  env.client = "ari" =>
    /\ \A t \in EventTypes : \A i, j \in 1..Len(event_listeners[t]) :
         i < j => ~SameObjectCallback(event_listeners[t][i], event_listeners[t][j])
    /\ \A s \in Streams : Dispatching(s) =>
         \A i, j \in 1..Len(invoked[s]) :
           i < j => ~SameObjectCallback(invoked[s][i], invoked[s][j])

\* C23: when close() returns, the registry of the client lists no
\* subscription, in either client.
C23_CloseEmptiesRegistry ==
  [][ClientClose => \A t \in EventTypes : event_listeners'[t] = <<>>]_vars

\* the futures listed for event type t
ListedFor(t) == {event_listeners[t][i].fut : i \in 1..Len(event_listeners[t])}
DispatchedTexts == ValidTexts \cup {ChannelCreated102, BridgeMerged101}

\* C24: a dispatch of a message of type T invokes only listeners that were
\* listed for T when it began, each of them at most once, and by itself
\* changes no list of the registry (ari.Client); it resolves only futures
\* that were listed for T and changes only the list of T (tornado_ari).  A
\* message of a type without listeners invokes and resolves nothing and
\* leaves registry, futures and loop as they were.
C24_OnlySubscribersOfType ==
  /\ [](\A s \in Streams :
          (env.client = "ari" /\ Dispatching(s)) =>
            /\ \A i \in 1..Len(invoked[s]) : Contains(at_start[s], invoked[s][i])
            /\ \A i, j \in 1..Len(invoked[s]) : i < j => invoked[s][i] # invoked[s][j]
            /\ at_start[s] = <<>> => invoked[s] = <<>>)
  /\ [][\A s \in Streams :
          /\ \A m \in DispatchedTexts :
               AriRead(s, m) =>
                 /\ event_listeners' = event_listeners
                 /\ at_start'[s] = event_listeners[m.type]
          /\ \A ret \in Rets : AriInvoke(s, ret, Nop) => event_listeners' = event_listeners
          /\ (AriEndDispatch(s) \/ \E ok \in BOOLEAN : AriResume(s, ok)) =>
               event_listeners' = event_listeners]_vars
  /\ [][\A s \in Streams, m \in DispatchedTexts :
          TornadoRead(s, m) =>
            /\ \A t \in EventTypes \ {m.type} : event_listeners'[t] = event_listeners[t]
            /\ \A k \in 1..MaxFutures \ ListedFor(m.type) :
                 fut_state'[k] = fut_state[k] /\ fut_result'[k] = fut_result[k]
            /\ event_listeners[m.type] = <<>> =>
                 /\ event_listeners' = event_listeners
                 /\ fut_state' = fut_state /\ fut_result' = fut_result
                 /\ pc' = pc /\ err' = err]_vars

\* a ChannelCreated message has been delivered to its listener while
\* another event type has a listener too
C24_Witness ==
  \E s \in Streams :
    /\ env.client = "ari" /\ Finished(s)
    /\ cur[s].type = "ChannelCreated" /\ Len(invoked[s]) = 1
    /\ event_listeners["Custom"] # <<>>

\* C25: after on_event has registered a callback again for the same event
\* type, close() of the handle of the earlier registration leaves the
\* registry as the second on_event left it, the newer registration listed;
\* a second close() of that handle changes nothing.
C25_HandleClosesOwnRegistration ==
  fn = "close_earlier_handle" =>
    /\ res.closed = res.second
    /\ Contains(res.closed[arg.type], CallbackObj(CbDirect(arg.cb), arg.args2))
    /\ res.closed_twice = res.closed

\* the places of the registry that hold future k
Occurrences(k) ==
  {p \in EventTypes \X (1..MaxFutures) :
     p[2] <= Len(event_listeners[p[1]]) /\ event_listeners[p[1]][p[2]].fut = k}

\* C26: in tornado_ari.Client, when no holder resolves a future himself,
\* every future the registry lists is pending and is listed once, and a
\* dispatch that resolves a future leaves it listed nowhere.
C26_RegistryHoldsPending ==
  /\ []((env.client = "tornado" /\ ~env.external) =>
          \A k \in 1..MaxFutures :
            /\ Cardinality(Occurrences(k)) <= 1
            /\ Occurrences(k) # {} => fut_state[k] = "pending")
  /\ [][\A s \in Streams, m \in DispatchedTexts :
          (TornadoRead(s, m) /\ ~env.external) =>
            \A k \in 1..MaxFutures :
              (fut_state[k] = "pending" /\ fut_state'[k] = "done") =>
                \A t \in EventTypes : \A i \in 1..Len(event_listeners'[t]) :
                  event_listeners'[t][i].fut # k]_vars

\* a dispatch has resolved a future, which is listed no more, and has left
\* another one listed and pending
C26_Witness ==
  /\ env.client = "tornado" /\ ~env.external
  /\ \E k \in 1..MaxFutures :
       fut_state[k] = "done" /\ fut_result[k] # NoEvent /\ Occurrences(k) = {}
  /\ \E k \in 1..MaxFutures : fut_state[k] = "pending" /\ Occurrences(k) # {}

====
